---- MODULE Spec2Model ----
(***************************************************************************)
(* ToyVec<T>: a growable array over a boxed slice, and Iter<'vec, T>, the  *)
(* forward iterator that borrows it (src/src/lib.rs).                      *)
(*                                                                         *)
(* Slot i of the Rust slice (0-based) is elements[i + 1] here (TLA+        *)
(* sequences are 1-based).  An Option<T> is a tuple: <<>> for None and     *)
(* <<v>> for Some(v).  Every indexing of the slice is bounds-checked as in *)
(* Rust: an index >= capacity is a panic, recorded in the variable fault.  *)
(***************************************************************************)
EXTENDS Integers, Sequences, FiniteSets, TLC

\* ---- bounds of the model ----
MaxLen == 3          \* push is explored while len < MaxLen
MaxInitCap == 1      \* with_capacity(n) is explored for n in 0..MaxInitCap
MaxCursors == 2      \* number of iterators that may be alive at once
Width == 4           \* bits of usize in the model
OvfWidth == 2        \* the overflow specification explores usize of 1..OvfWidth bits

\* The element type T, instantiated with bool, and its Default::default()
Values == BOOLEAN
Default == FALSE

None == << >>
Some(v) == << v >>

Cursors == 1 .. MaxCursors

VARIABLES
    elements,   \* ToyVec::elements, the boxed slice
    len,        \* ToyVec::len
    cursors,    \* the Iter values: cursors[c] is iterator c, alive or not
    fault,      \* TRUE once an operation has panicked
    last,       \* history: the last operation, its arguments and its result
    pre,        \* history: elements and len before the last operation
    appended,   \* history: appended[i + 1] is the value last pushed at index i, for i < len
    created,    \* history: the capacity the container was created with
    nAppends,   \* history: number of push calls so far, while pop was never called (0 after)
    removed,    \* history: TRUE once pop has been called
    width       \* the number of bits of usize on the platform the program runs on

vars == << elements, len, cursors, fault, last, pre, appended, created, nAppends, removed, width >>

\* usize holds 0 .. UsizeMod - 1
UsizeMod == 2 ^ width

\* ---- ToyVec ----

\* ToyVec::allocate_in_heap: size slots, each T::default()
allocate_in_heap(size) == [i \in 1 .. size |-> Default]

\* ToyVec::with_capacity
with_capacity(cap) == [elements |-> allocate_in_heap(cap), len |-> 0]

\* ToyVec::new
new == with_capacity(0)

\* ToyVec::capacity: the length of the slice
capacity(es) == Len(es)

\* ToyVec::len
len_(l) == l

\* grow that allocates one more slot instead of doubling
grow_PlusOne(es, checks) ==
    LET n == capacity(es) + 1
    IN  [elements |-> [i \in 1 .. n |-> IF i <= capacity(es) THEN es[i] ELSE Default],
         fault |-> FALSE]

\* grow that installs the new buffer and drops the old one without the copy loop
grow_NoCopy(es, checks) ==
    IF capacity(es) = 0
    THEN [elements |-> allocate_in_heap(1), fault |-> FALSE]
    ELSE [elements |-> allocate_in_heap((capacity(es) * 2) % UsizeMod), fault |-> FALSE]

\* grow whose copy loop fills the new buffer from the back of the old one
grow_ReverseCopy(es, checks) ==
    IF capacity(es) = 0
    THEN [elements |-> allocate_in_heap(1), fault |-> FALSE]
    ELSE LET n == (capacity(es) * 2) % UsizeMod
         IN  [elements |-> [i \in 1 .. n |->
                              IF i <= capacity(es) THEN es[capacity(es) + 1 - i] ELSE Default],
              fault |-> n < capacity(es)]

\* grow that settles for one more slot when the doubling does not fit usize
grow_FallbackPlusOne(es, checks) ==
    IF capacity(es) = 0
    THEN [elements |-> allocate_in_heap(1), fault |-> FALSE]
    ELSE LET n == IF capacity(es) * 2 >= UsizeMod THEN capacity(es) + 1
                                                  ELSE capacity(es) * 2
         IN  [elements |-> [i \in 1 .. n |-> IF i <= capacity(es) THEN es[i] ELSE Default],
              fault |-> n >= UsizeMod]

\* ToyVec::grow.  checks: the build has overflow checks (capacity * 2 panics
\* when it does not fit usize); without them the product wraps, and the copy
\* loop panics at the first index the wrapped buffer does not have.
grow(es, checks) ==
    IF capacity(es) = 0
    THEN [elements |-> allocate_in_heap(1), fault |-> FALSE]
    ELSE IF checks /\ capacity(es) * 2 >= UsizeMod
    THEN [elements |-> es, fault |-> TRUE]
    ELSE LET n == (capacity(es) * 2) % UsizeMod
             new_elements == allocate_in_heap(n)
         IN  [elements |-> [i \in 1 .. n |->
                              IF i <= capacity(es) THEN es[i] ELSE new_elements[i]],
              fault |-> n < capacity(es)]

\* push that stores the element and forgets self.len += 1
push_NoInc(es, l, element, checks) ==
    LET g == IF l = capacity(es) THEN grow(es, checks)
                                 ELSE [elements |-> es, fault |-> FALSE]
    IN  IF g.fault \/ ~(l < capacity(g.elements))
        THEN [elements |-> g.elements, len |-> l, fault |-> TRUE]
        ELSE [elements |-> [g.elements EXCEPT ![l + 1] = element],
              len |-> l, fault |-> FALSE]

\* push that grows as soon as the element would fill the last free slot
push_GrowEarly(es, l, element, checks) ==
    LET g == IF l + 1 >= capacity(es) THEN grow(es, checks)
                                      ELSE [elements |-> es, fault |-> FALSE]
    IN  IF g.fault \/ ~(l < capacity(g.elements))
        THEN [elements |-> g.elements, len |-> l, fault |-> TRUE]
        ELSE [elements |-> [g.elements EXCEPT ![l + 1] = element],
              len |-> l + 1, fault |-> FALSE]

\* ToyVec::push
push(es, l, element, checks) ==
    LET g == IF l = capacity(es) THEN grow(es, checks)
                                 ELSE [elements |-> es, fault |-> FALSE]
    IN  IF g.fault \/ ~(l < capacity(g.elements))
        THEN [elements |-> g.elements, len |-> l, fault |-> TRUE]
        ELSE [elements |-> [g.elements EXCEPT ![l + 1] = element],
              len |-> l + 1, fault |-> FALSE]

\* pop without the len == 0 test: len wraps and the slot access panics
pop_NoEmptyCheck(es, l) ==
    LET l1 == (l - 1) % UsizeMod
    IN  IF ~(l1 < capacity(es))
        THEN [elements |-> es, len |-> l1, ret |-> None, fault |-> TRUE]
        ELSE [elements |-> [es EXCEPT ![l1 + 1] = Default], len |-> l1,
              ret |-> Some(es[l1 + 1]), fault |-> FALSE]

\* pop that overwrites the slot with the default before reading it
pop_ReturnsDefault(es, l) ==
    IF l = 0
    THEN [elements |-> es, len |-> l, ret |-> None, fault |-> FALSE]
    ELSE [elements |-> [es EXCEPT ![l] = Default], len |-> l - 1,
          ret |-> Some(Default), fault |-> FALSE]

\* pop that gives the vacated slot back: the buffer is cut to the new length
pop_Shrink(es, l) ==
    IF l = 0
    THEN [elements |-> es, len |-> l, ret |-> None, fault |-> FALSE]
    ELSE [elements |-> SubSeq(es, 1, l - 1), len |-> l - 1,
          ret |-> Some(es[l]), fault |-> FALSE]

\* pop that answers Some(default) on an empty container
pop_EmptyReturnsDefault(es, l) ==
    IF l = 0
    THEN [elements |-> es, len |-> l, ret |-> Some(Default), fault |-> FALSE]
    ELSE [elements |-> [es EXCEPT ![l] = Default], len |-> l - 1,
          ret |-> Some(es[l]), fault |-> FALSE]

\* pop that copies the value out and leaves it in the vacated slot
pop_NoReplace(es, l) ==
    IF l = 0
    THEN [elements |-> es, len |-> l, ret |-> None, fault |-> FALSE]
    ELSE [elements |-> es, len |-> l - 1, ret |-> Some(es[l]), fault |-> FALSE]

\* pop that reads the slot at the old length instead of the new one
pop_OffByOne(es, l) ==
    IF l = 0
    THEN [elements |-> es, len |-> l, ret |-> None, fault |-> FALSE]
    ELSE IF ~(l < capacity(es))
    THEN [elements |-> es, len |-> l - 1, ret |-> None, fault |-> TRUE]
    ELSE [elements |-> [es EXCEPT ![l + 1] = Default], len |-> l - 1,
          ret |-> Some(es[l + 1]), fault |-> FALSE]

\* ToyVec::pop
pop(es, l) ==
    IF l = 0
    THEN [elements |-> es, len |-> l, ret |-> None, fault |-> FALSE]
    ELSE IF ~(l - 1 < capacity(es))
    THEN [elements |-> es, len |-> l - 1, ret |-> None, fault |-> TRUE]
    ELSE [elements |-> [es EXCEPT ![l] = Default], len |-> l - 1,
          ret |-> Some(es[l]), fault |-> FALSE]

\* get with index <= len for index < len
get_OffByOne(es, l, index) ==
    IF index <= l
    THEN IF index < capacity(es)
         THEN [ret |-> Some(es[index + 1]), fault |-> FALSE]
         ELSE [ret |-> None, fault |-> TRUE]
    ELSE [ret |-> None, fault |-> FALSE]

\* ToyVec::get
get(es, l, index) ==
    IF index < l
    THEN IF index < capacity(es)
         THEN [ret |-> Some(es[index + 1]), fault |-> FALSE]
         ELSE [ret |-> None, fault |-> TRUE]
    ELSE [ret |-> None, fault |-> FALSE]

\* get_or that answers the fallback whenever the slot holds the placeholder value
get_or_DefaultIsAbsent(es, l, index, default) ==
    LET g == get(es, l, index)
    IN  [ret |-> IF g.ret = None \/ g.ret = Some(Default) THEN Some(default) ELSE g.ret,
         fault |-> g.fault]

\* ToyVec::get_or: get(index).unwrap_or(default)
get_or(es, l, index, default) ==
    LET g == get(es, l, index)
    IN  [ret |-> IF g.ret = None THEN Some(default) ELSE g.ret, fault |-> g.fault]

\* ---- Iter ----
\* Iter::elements is the shared reference &self.elements: the iterator reads
\* the variable elements.  yields and exhausted are history: the references
\* next() has returned so far, as << index, value >>, and whether next() has
\* returned None.

NoCursor == [alive |-> FALSE, len |-> 0, pos |-> 0, yields |-> << >>, exhausted |-> FALSE]

\* ToyVec::iter
iter(l) == [alive |-> TRUE, len |-> l, pos |-> 0, yields |-> << >>, exhausted |-> FALSE]

\* IntoIterator for &ToyVec<T>: into_iter is self.iter()
into_iter(l) == iter(l)

\* next with pos > len for pos >= len
next_OffByOne(it, es) ==
    IF it.pos > it.len
    THEN [it |-> [it EXCEPT !.exhausted = TRUE], ret |-> None, fault |-> FALSE]
    ELSE IF ~(it.pos < capacity(es))
    THEN [it |-> it, ret |-> None, fault |-> TRUE]
    ELSE [it |-> [it EXCEPT !.pos = @ + 1,
                            !.yields = Append(@, << it.pos, es[it.pos + 1] >>)],
          ret |-> Some(es[it.pos + 1]), fault |-> FALSE]

\* next that rewinds to the start when it reaches the end
next_Restart(it, es) ==
    IF it.pos >= it.len
    THEN [it |-> [it EXCEPT !.exhausted = TRUE, !.pos = 0], ret |-> None, fault |-> FALSE]
    ELSE IF ~(it.pos < capacity(es))
    THEN [it |-> it, ret |-> None, fault |-> TRUE]
    ELSE [it |-> [it EXCEPT !.pos = @ + 1,
                            !.yields = Append(@, << it.pos, es[it.pos + 1] >>)],
          ret |-> Some(es[it.pos + 1]), fault |-> FALSE]

\* next that advances past the element after the one it yields
next_SkipOne(it, es) ==
    IF it.pos >= it.len
    THEN [it |-> [it EXCEPT !.exhausted = TRUE], ret |-> None, fault |-> FALSE]
    ELSE IF ~(it.pos < capacity(es))
    THEN [it |-> it, ret |-> None, fault |-> TRUE]
    ELSE [it |-> [it EXCEPT !.pos = @ + 2,
                            !.yields = Append(@, << it.pos, es[it.pos + 1] >>)],
          ret |-> Some(es[it.pos + 1]), fault |-> FALSE]

\* Iterator::next for Iter
next(it, es) ==
    IF it.pos >= it.len
    THEN [it |-> [it EXCEPT !.exhausted = TRUE], ret |-> None, fault |-> FALSE]
    ELSE IF ~(it.pos < capacity(es))
    THEN [it |-> it, ret |-> None, fault |-> TRUE]
    ELSE [it |-> [it EXCEPT !.pos = @ + 1,
                            !.yields = Append(@, << it.pos, es[it.pos + 1] >>)],
          ret |-> Some(es[it.pos + 1]), fault |-> FALSE]

\* A shared borrow of the ToyVec is alive: &mut self methods cannot be called.
Borrowed == \E c \in Cursors : cursors[c].alive

\* ---- the state machine ----

Op(op, arg, ret, cur) == [op |-> op, arg |-> arg, ret |-> ret, cur |-> cur, afterPush |-> FALSE]

Snapshot == [elements |-> elements, len |-> len]

\* A container just constructed, on a platform whose usize has w bits
Create(w) ==
    \E n \in 0 .. MaxInitCap, ctor \in {"new", "with_capacity"} :
        /\ ctor = "new" => n = 0
        /\ n < 2 ^ w
        /\ width = w
        /\ LET v == IF ctor = "new" THEN new ELSE with_capacity(n)
           IN  /\ elements = v.elements
               /\ len = v.len
               /\ pre = v
        /\ cursors = [c \in Cursors |-> NoCursor]
        /\ fault = FALSE
        /\ last = Op(ctor, << n >>, None, 0)
        /\ appended = << >>
        /\ created = n
        /\ nAppends = 0
        /\ removed = FALSE

Init == Create(Width)

\* The platforms on which the doubling of grow overflows within MaxLen pushes
InitOvf == \E w \in 1 .. OvfWidth : Create(w)

Push(element) ==
    /\ ~fault /\ ~Borrowed
    /\ len < MaxLen
    /\ \E checks \in BOOLEAN :
         LET r == push(elements, len, element, checks)
         IN  /\ elements' = r.elements
             /\ len' = r.len
             /\ fault' = r.fault
             /\ appended' = IF r.fault THEN appended ELSE Append(appended, element)
    /\ last' = Op("push", << element >>, None, 0)
    /\ pre' = Snapshot
    /\ nAppends' = IF removed THEN 0 ELSE nAppends + 1
    /\ UNCHANGED << cursors, created, removed, width >>

Pop ==
    /\ ~fault /\ ~Borrowed
    /\ LET r == pop(elements, len)
       IN  /\ elements' = r.elements
           /\ len' = r.len
           /\ fault' = r.fault
           /\ last' = [Op("pop", << >>, r.ret, 0) EXCEPT !.afterPush = (last.op = "push")]
    /\ appended' = IF len = 0 THEN appended ELSE SubSeq(appended, 1, Len(appended) - 1)
    /\ pre' = Snapshot
    /\ removed' = TRUE
    /\ nAppends' = 0
    /\ UNCHANGED << cursors, created, width >>

Get(index) ==
    /\ ~fault
    /\ LET r == get(elements, len, index)
       IN  /\ fault' = r.fault
           /\ last' = Op("get", << index >>, r.ret, 0)
    /\ pre' = Snapshot
    /\ UNCHANGED << elements, len, cursors, appended, created, nAppends, removed, width >>

GetOr(index, default) ==
    /\ ~fault
    /\ LET r == get_or(elements, len, index, default)
       IN  /\ fault' = r.fault
           /\ last' = Op("get_or", << index, default >>, r.ret, 0)
    /\ pre' = Snapshot
    /\ UNCHANGED << elements, len, cursors, appended, created, nAppends, removed, width >>

LenOp ==
    /\ ~fault
    /\ last' = Op("len", << >>, Some(len_(len)), 0)
    /\ pre' = Snapshot
    /\ UNCHANGED << elements, len, cursors, fault, appended, created, nAppends, removed, width >>

CapacityOp ==
    /\ ~fault
    /\ last' = Op("capacity", << >>, Some(capacity(elements)), 0)
    /\ pre' = Snapshot
    /\ UNCHANGED << elements, len, cursors, fault, appended, created, nAppends, removed, width >>

IterOp(c) ==
    /\ ~fault
    /\ ~cursors[c].alive
    /\ cursors' = [cursors EXCEPT ![c] = iter(len)]
    /\ last' = Op("iter", << >>, None, c)
    /\ pre' = Snapshot
    /\ UNCHANGED << elements, len, fault, appended, created, nAppends, removed, width >>

IntoIterOp(c) ==
    /\ ~fault
    /\ ~cursors[c].alive
    /\ cursors' = [cursors EXCEPT ![c] = into_iter(len)]
    /\ last' = Op("into_iter", << >>, None, c)
    /\ pre' = Snapshot
    /\ UNCHANGED << elements, len, fault, appended, created, nAppends, removed, width >>

\* next as a draining iterator: the yielded value is moved out of its slot
NextOp_Drain(c) ==
    /\ ~fault
    /\ cursors[c].alive
    /\ LET r == next(cursors[c], elements)
       IN  /\ cursors' = [cursors EXCEPT ![c] = r.it]
           /\ fault' = r.fault
           /\ last' = Op("next", << >>, r.ret, c)
           /\ elements' = IF r.ret = None THEN elements
                          ELSE [elements EXCEPT ![cursors[c].pos + 1] = Default]
    /\ pre' = Snapshot
    /\ UNCHANGED << len, appended, created, nAppends, removed, width >>

\* next with one position shared by all the iterators of the container
NextOp_SharedPos(c) ==
    /\ ~fault
    /\ cursors[c].alive
    /\ LET r == next(cursors[c], elements)
       IN  /\ cursors' = [d \in Cursors |->
                            IF d = c THEN r.it
                            ELSE IF cursors[d].alive
                                 THEN [cursors[d] EXCEPT !.pos = r.it.pos]
                                 ELSE cursors[d]]
           /\ fault' = r.fault
           /\ last' = Op("next", << >>, r.ret, c)
    /\ pre' = Snapshot
    /\ UNCHANGED << elements, len, appended, created, nAppends, removed, width >>

NextOp(c) ==
    /\ ~fault
    /\ cursors[c].alive
    /\ LET r == next(cursors[c], elements)
       IN  /\ cursors' = [cursors EXCEPT ![c] = r.it]
           /\ fault' = r.fault
           /\ last' = Op("next", << >>, r.ret, c)
    /\ pre' = Snapshot
    /\ UNCHANGED << elements, len, appended, created, nAppends, removed, width >>

\* The iterator goes out of scope: its borrow of the ToyVec ends.
DropIter(c) ==
    /\ ~fault
    /\ cursors[c].alive
    /\ cursors' = [cursors EXCEPT ![c] = NoCursor]
    /\ last' = Op("drop_iter", << >>, None, c)
    /\ pre' = Snapshot
    /\ UNCHANGED << elements, len, fault, appended, created, nAppends, removed, width >>

\* The index arguments explored: the last live index and the first absent one
\* (which is the capacity when the buffer is full).
Indices == {i \in {len - 1, len} : i >= 0}

Next ==
    \/ \E element \in Values : Push(element)
    \/ Pop
    \/ \E index \in Indices : Get(index)
    \/ \E index \in Indices, default \in Values : GetOr(index, default)
    \/ LenOp
    \/ CapacityOp
    \/ \E c \in Cursors : IterOp(c)
    \/ \E c \in Cursors : IntoIterOp(c)
    \/ \E c \in Cursors : NextOp(c)
    \/ \E c \in Cursors : DropIter(c)

Spec == Init /\ [][Next]_vars

SpecOvf == InitOvf /\ [][Next]_vars

\* ---- properties ----

\* The live values: the slots at indices [0, l)
Live(es, l) == SubSeq(es, 1, l)

\* The smallest power of two, starting from p, that is >= n
RECURSIVE Pow2AtLeast(_, _)
Pow2AtLeast(n, p) == IF p >= n THEN p ELSE Pow2AtLeast(n, 2 * p)

\* C1: in every state reachable by create, createWithCapacity(n), append and
\* removeLast, 0 <= length <= capacity.
C1_LenWithinCapacity == 0 <= len /\ len <= capacity(elements)

\* C1 happens: the buffer is full after a growth and a removal
C1_Witness ==
    /\ last.op = "push" /\ removed
    /\ len = capacity(elements) /\ capacity(elements) > created

\* C2: with no removals, the length after the N-th append is N.
C2_LenCountsAppends == ~removed => len = nAppends

\* C2 happens: three appends, one of which grew the buffer
C2_Witness == ~removed /\ nAppends >= 3 /\ capacity(elements) > created

\* C3: from capacity 0 and with appends only, the capacity after each append
\* is the smallest power of two >= the length (0, 1, 2, 4, ... over the appends).
C3_GrowthDoubling ==
    (created = 0 /\ ~removed) =>
        capacity(elements) = IF len = 0 THEN 0 ELSE Pow2AtLeast(len, 1)

\* C3 happens: the third append has doubled the capacity 2 to 4
C3_Witness ==
    /\ created = 0 /\ ~removed /\ last.op = "push"
    /\ len = 3 /\ capacity(elements) = 4

\* C4: append(x) immediately followed by removeLast() returns x and restores
\* the length and the values at [0, length) that held before the append.
C4_RoundTrip ==
    [][(last.op = "push" /\ last'.op = "pop") =>
          /\ last'.ret = Some(last.arg[1])
          /\ len' = pre.len
          /\ Live(elements', len') = Live(pre.elements, pre.len)]_vars

\* C4 happens: a removal right after an append that returned a non-default value
C4_Witness ==
    /\ last.op = "pop" /\ last.afterPush
    /\ last.ret = Some(TRUE) /\ len >= 1

\* C5: no operation leaves the capacity smaller than it was.
C5_CapacityMonotone == [][capacity(elements') >= capacity(elements)]_vars

\* C5 happens: a removal from a buffer that had grown
C5_Witness ==
    /\ last.op = "pop" /\ last.ret # None
    /\ capacity(elements) > created

\* C6: get(i) is absent for i >= length, and for i < length it is the value
\* most recently appended at index i.
C6_GetReturnsAppended ==
    /\ \A i \in 0 .. capacity(elements) + 1 :
          get(elements, len, i).ret = IF i < len THEN Some(appended[i + 1]) ELSE None
    /\ last.op = "get" =>
          last.ret = IF last.arg[1] < pre.len THEN Some(appended[last.arg[1] + 1]) ELSE None

\* C6 happens: get of a live non-default value after a growth and a removal
C6_Witness ==
    /\ last.op = "get" /\ last.ret = Some(TRUE)
    /\ removed /\ capacity(elements) > created

\* C7: a cursor over a container of length N yields exactly N references, in
\* index order, the i-th equal to get(i), and then absence.
C7_TraversalComplete ==
    \A c \in Cursors : cursors[c].alive =>
        LET ys == cursors[c].yields
        IN  /\ Len(ys) <= len
            /\ \A k \in 1 .. Len(ys) :
                  /\ ys[k][1] = k - 1
                  /\ Some(ys[k][2]) = get(elements, len, k - 1).ret
            /\ cursors[c].exhausted => Len(ys) = len
            /\ (last.op = "next" /\ last.cur = c /\ last.ret # None) =>
                  (Len(ys) >= 1 /\ last.ret = Some(ys[Len(ys)][2]))

\* C7 happens: a cursor has yielded two elements and then absence
C7_Witness ==
    \E c \in Cursors :
        /\ cursors[c].alive /\ cursors[c].exhausted
        /\ Len(cursors[c].yields) >= 2
        /\ last.op = "next" /\ last.cur = c /\ last.ret = None

\* C8: once next() has returned absence, every later next() on the cursor
\* returns absence and leaves position unchanged; a new cursor is active
\* (position < bound) iff bound > 0.
C8_ExhaustedTerminal ==
    /\ [](\A c \in Cursors :
            (last.op \in {"iter", "into_iter"} /\ last.cur = c) =>
                (cursors[c].pos < cursors[c].len <=> cursors[c].len > 0))
    /\ [][\A c \in Cursors :
            (cursors[c].alive /\ cursors[c].exhausted /\ cursors'[c].alive) =>
                /\ cursors'[c].exhausted
                /\ cursors'[c].pos = cursors[c].pos
                /\ (last'.op = "next" /\ last'.cur = c) => last'.ret = None]_vars

\* C8 happens: next() on a cursor over a non-empty container returned absence
C8_Witness ==
    \E c \in Cursors :
        /\ cursors[c].alive /\ cursors[c].exhausted /\ cursors[c].len > 0
        /\ last.op = "next" /\ last.cur = c /\ last.ret = None
        /\ pre.len = len

\* C9: removeLast() on a container of length 0 returns absence and leaves
\* length, capacity and every slot unchanged.
C9_PopEmpty ==
    [][(len = 0 /\ last'.op = "pop") =>
          /\ last'.ret = None
          /\ len' = len
          /\ elements' = elements]_vars

\* C9 happens: removeLast() returned absence on a container emptied by removals
C9_Witness ==
    /\ last.op = "pop" /\ last.ret = None
    /\ len = 0 /\ capacity(elements) > created

\* C10: no operation faults: every slot access of push, pop, get, get_or,
\* grow and next is below the capacity, for any index argument (growth past
\* the largest usize excepted).
C10_NoFault ==
    /\ ~fault
    /\ \A i \in 0 .. capacity(elements) + 1 :
          /\ ~get(elements, len, i).fault
          /\ \A d \in Values : ~get_or(elements, len, i, d).fault
    /\ ~pop(elements, len).fault
    /\ \A v \in Values, checks \in BOOLEAN :
          push(elements, len, v, checks).fault =>
              (len = capacity(elements) /\ capacity(elements) * 2 >= UsizeMod)
    /\ \A c \in Cursors : cursors[c].alive => ~next(cursors[c], elements).fault

\* C10 happens: get at an index at or above the capacity of a full buffer
C10_Witness ==
    /\ last.op = "get" /\ last.arg[1] >= capacity(elements)
    /\ len = capacity(elements) /\ len > 0 /\ ~fault

\* C12: getOr(index, fallback) returns the element get(index) returns when
\* index < length, and fallback when index >= length, for every index.
C12_GetOrFallback ==
    /\ \A i \in 0 .. capacity(elements) + 1, d \in Values :
          get_or(elements, len, i, d).ret =
              IF i < len THEN Some(appended[i + 1]) ELSE Some(d)
    /\ \A i \in 0 .. len - 1, d \in Values :
          get_or(elements, len, i, d).ret = get(elements, len, i).ret
    /\ last.op = "get_or" =>
          last.ret = IF last.arg[1] < len THEN Some(appended[last.arg[1] + 1])
                                          ELSE Some(last.arg[2])

\* C12 happens: getOr has returned a live placeholder-valued element, not the fallback
C12_Witness ==
    /\ last.op = "get_or" /\ last.arg[1] < len
    /\ last.arg[2] = TRUE /\ last.ret = Some(FALSE)

\* C13: every slot at an index in [length, capacity) holds T's default value.
C13_Placeholders ==
    \A i \in len + 1 .. capacity(elements) : elements[i] = Default

\* C13 happens: removeLast has vacated a slot that held a non-default value
C13_Witness ==
    /\ last.op = "pop" /\ last.ret = Some(TRUE)
    /\ len < capacity(elements)

\* C14: append changes the capacity iff length = capacity before the call, and
\* then the new capacity is 1 when the old one was 0 and 2 * old otherwise.
C14_GrowOnlyWhenFull ==
    [][last'.op = "push" =>
          /\ capacity(elements') # capacity(elements) <=> len = capacity(elements)
          /\ len = capacity(elements) =>
                capacity(elements') = IF capacity(elements) = 0 THEN 1
                                      ELSE 2 * capacity(elements)]_vars

\* C14 happens: a container created with capacity 1 has gone to 2 on its second append
C14_Witness ==
    /\ last.op = "push" /\ created = 1 /\ ~removed
    /\ len = 2 /\ capacity(pre.elements) = 1 /\ capacity(elements) = 2

\* C15: append(v) leaves the value at every index in [0, old length) unchanged
\* and places v at index old length, with or without growth.
C15_PushFrame ==
    [][last'.op = "push" =>
          /\ len' = len + 1
          /\ Live(elements', len) = Live(elements, len)
          /\ elements'[len + 1] = last'.arg[1]]_vars

\* C15 happens: an append has grown a buffer whose two live values differ
C15_Witness ==
    /\ last.op = "push" /\ pre.len = 2
    /\ capacity(elements) > capacity(pre.elements)
    /\ pre.elements[1] = TRUE /\ pre.elements[2] = FALSE
    /\ elements[3] = TRUE

\* The operations that take &self (or an iterator) and only read the storage
ReadOps == {"len", "capacity", "get", "get_or", "iter", "into_iter", "next"}

\* C16: length(), capacity(), get, getOr, traverse() and next() leave the
\* storage's length, capacity and every slot value unchanged.
C16_ReadsFrame ==
    [][last'.op \in ReadOps => (elements' = elements /\ len' = len)]_vars

\* C16 happens: next() has yielded a non-default element of the storage
C16_Witness ==
    /\ last.op = "next" /\ last.ret = Some(TRUE)
    /\ len >= 2 /\ elements = pre.elements

\* C17: a cursor's bound is the storage's length when traverse() was called
\* and never changes; 0 <= position <= bound; position increases by exactly
\* 1 on each next() that yields.
C17_CursorInvariant ==
    /\ [](\A c \in Cursors : cursors[c].alive =>
            (0 <= cursors[c].pos /\ cursors[c].pos <= cursors[c].len))
    /\ [][\A c \in Cursors :
            /\ (last'.op \in {"iter", "into_iter"} /\ last'.cur = c) =>
                  cursors'[c].len = len
            /\ (cursors[c].alive /\ cursors'[c].alive) =>
                  /\ cursors'[c].len = cursors[c].len
                  /\ (last'.op = "next" /\ last'.cur = c) =>
                        cursors'[c].pos = IF last'.ret = None THEN cursors[c].pos
                                          ELSE cursors[c].pos + 1]_vars

\* C17 happens: a cursor has reached its bound by yielding its last element
C17_Witness ==
    \E c \in Cursors :
        /\ cursors[c].alive /\ cursors[c].len >= 2
        /\ cursors[c].pos = cursors[c].len /\ ~cursors[c].exhausted
        /\ last.op = "next" /\ last.cur = c /\ last.ret # None

\* C18: when 2 * capacity does not fit usize, the append that triggers growth
\* ends in a fault, and no append completes with a storage whose capacity is
\* below its length or whose live elements were lost.
C18_OverflowFaults ==
    /\ [](~fault => (len <= capacity(elements) /\ Live(elements, len) = appended))
    /\ [][(last'.op = "push" /\ len = capacity(elements)
              /\ 2 * capacity(elements) >= UsizeMod) =>
            (fault' /\ len' = len)]_vars

\* C18 happens: an append on a full buffer whose doubling overflows has
\* faulted, in the build where the product wraps to a smaller buffer
C18_Witness ==
    /\ fault /\ last.op = "push"
    /\ pre.len = capacity(pre.elements) /\ pre.len >= 2
    /\ 2 * capacity(pre.elements) >= UsizeMod
    /\ capacity(elements) < capacity(pre.elements)

\* C19: the values at [0, length) are the abstract sequence built by Append
\* and drop-last from the empty sequence, and every non-absent removeLast
\* returns that sequence's last element.
C19_StackRefinement ==
    /\ [](~fault => (Len(appended) = len /\ Live(elements, len) = appended))
    /\ [][last'.op = "pop" =>
            /\ last'.ret = IF appended = << >> THEN None
                           ELSE Some(appended[Len(appended)])
            /\ appended # << >> =>
                  Live(elements', len') = SubSeq(appended, 1, Len(appended) - 1)]_vars

\* C19 happens: removeLast has returned the last appended value, which differs
\* from the one below it
C19_Witness ==
    /\ last.op = "pop" /\ last.ret = Some(FALSE)
    /\ len >= 1 /\ elements[len] = TRUE
    /\ capacity(elements) > created

\* The references a cursor has to yield: index and value of every slot below its bound
FullTraversal(c) == [k \in 1 .. cursors[c].len |-> << k - 1, elements[k] >>]

\* C20: next() on one cursor leaves every other cursor's position and bound
\* unchanged, and each cursor yields all of 0..bound-1 however the calls interleave.
C20_CursorIndependence ==
    /\ [](\A c \in Cursors : cursors[c].alive =>
            /\ cursors[c].yields = SubSeq(FullTraversal(c), 1, cursors[c].pos)
            /\ cursors[c].exhausted => cursors[c].yields = FullTraversal(c))
    /\ [][\A c \in Cursors :
            (last'.op = "next" /\ last'.cur = c) =>
                \A d \in Cursors \ {c} :
                    /\ cursors'[d].pos = cursors[d].pos
                    /\ cursors'[d].len = cursors[d].len
                    /\ cursors'[d].yields = cursors[d].yields]_vars

\* C20 happens: one cursor is exhausted after a full traversal while another
\* is part-way through its own
C20_Witness ==
    \E c, d \in Cursors :
        /\ c # d /\ cursors[c].alive /\ cursors[d].alive
        /\ cursors[c].exhausted /\ Len(cursors[c].yields) >= 2
        /\ cursors[d].pos > 0 /\ cursors[d].pos < cursors[d].len
        /\ last.op = "next" /\ last.cur = d

====
